---- MODULE Spec2Model ----
(***************************************************************************)
(* Model of neighbor_node.py: the beacon receive loop of main(), the       *)
(* release of the socket, nearest_neighbor and the summary line.          *)
(*                                                                         *)
(* Time is in milliseconds.  The receiver's clock is kept exact up to      *)
(* MaxStart before the first stored beacon and up to first_ts + MaxElapsed *)
(* afterwards; beyond that it saturates.  The code only ever compares      *)
(* now - first_ts with COLLECT_WINDOW_MS, so every decision of the code is *)
(* preserved as long as MaxElapsed >= COLLECT_WINDOW_MS.                   *)
(***************************************************************************)
EXTENDS Integers, Sequences, FiniteSets, TLC

VARIABLES pc, sock, closes, neighbors, first_ts, clock, exc, last,
          nn, out, status, accepted, replaced, lateIds, firstSeen, exitBy,
          calls, port, dropped, pc2, neighbors2, first_ts2, clock2

vars == <<pc, sock, closes, neighbors, first_ts, clock, exc, last,
          nn, out, status, accepted, replaced, lateIds, firstSeen, exitBy,
          calls, port, dropped, pc2, neighbors2, first_ts2, clock2>>

(* The variables that a run of main() leaves alone. *)
aside == <<calls>>

(* The second of two runs that are compared. *)
other == <<pc2, neighbors2, first_ts2, clock2>>

----------------------------------------------------------------------------
(* Program constants *)

PORT_BEACON == 5005
PORT_TICK == 5006
COLLECT_WINDOW_MS == 1000
IDLE_TIMEOUT_MS == 1500

(* Bounds of the model *)

MaxStart == 500
MaxElapsed == 1500
MaxTbl == 2
MaxCalls == 2
MaxDropped == 1

(* Time a receive attempt waits before a datagram arrives (each is         *)
(* positive and below the idle timeout), and time between recvfrom         *)
(* returning and now_ms().  The values put clock readings below, at and    *)
(* above COLLECT_WINDOW_MS after first_ts within reach.                    *)
Waits == {500, 1000, 1499}
ProcDelays == {0, 500}

----------------------------------------------------------------------------
(* JSON values as Python objects.  t is the Python type; n the numeric     *)
(* value (True is 1, False is 0; a float carries an integral value here);  *)
(* s the text of a str, or for a float one of "" (finite), "nan", "inf",   *)
(* "huge" (finite, but its square is out of the range of a float).         *)

PyInt(n) == [t |-> "int", n |-> n, s |-> ""]
PyFloat(n) == [t |-> "float", n |-> n, s |-> ""]
PyBool(b) == [t |-> "bool", n |-> IF b THEN 1 ELSE 0, s |-> ""]
PyStr(s) == [t |-> "str", n |-> 0, s |-> s]
PyNaN == [t |-> "float", n |-> 0, s |-> "nan"]
PyHuge == [t |-> "float", n |-> 0, s |-> "huge"]
PyNone == [t |-> "NoneType", n |-> 0, s |-> ""]

(* isinstance(x, str), isinstance(x, int), isinstance(x, (int, float)):    *)
(* bool is a subclass of int in Python.                                    *)
IsInstanceStr(x) == x.t = "str"
IsInstanceInt(x) == x.t \in {"int", "bool"}
IsInstanceIntFloat(x) == x.t \in {"int", "bool", "float"}

(* A list value is [list |-> TRUE, elems |-> <<...>>]; any other value     *)
(* found where a list is expected is [list |-> FALSE, elems |-> <<v>>].    *)
PyList(elems) == [list |-> TRUE, elems |-> elems]
NotList(v) == [list |-> FALSE, elems |-> <<v>>]

RequiredKeys == {"id", "pos", "speed", "ts"}

(* A datagram: body is "bad_utf8" (bytes that are not UTF-8), "bad_json"   *)
(* (text that is not JSON), "deep_nest" (JSON nested deeper than the       *)
(* interpreter's recursion limit), "not_dict" (JSON that is not an         *)
(* object) or "dict" (a JSON object with the keys in keys).                *)
Dgram(body, keys, id, pos, speed, ts) ==
    [body |-> body, keys |-> keys, id |-> id, pos |-> pos,
     speed |-> speed, ts |-> ts]

Beacon(id, x, y, speed, ts) ==
    Dgram("dict", RequiredKeys, PyStr(id), PyList(<<x, y>>), speed, ts)

Raw(body) ==
    Dgram(body, {}, PyNone, NotList(PyNone), PyNone, PyNone)

Ids == {"a", "b"}

ValidBeacons ==
    { Beacon("a", PyInt(3), PyInt(4), PyInt(10), PyInt(100)),
      Beacon("a", PyInt(1), PyInt(1), PyFloat(20), PyInt(200)),
      Beacon("b", PyInt(0), PyFloat(5), PyInt(30), PyInt(100)),
      Beacon("b", PyInt(-5), PyInt(0), PyInt(30), PyInt(300)),
      Beacon("b", PyNaN, PyInt(0), PyInt(30), PyInt(300)),
      Beacon("b", PyHuge, PyInt(0), PyInt(30), PyInt(300)) }

BoolBeacons ==
    { Beacon("a", PyInt(3), PyInt(4), PyInt(10), PyBool(TRUE)),
      Beacon("a", PyBool(TRUE), PyInt(0), PyInt(10), PyInt(100)),
      Beacon("b", PyInt(3), PyInt(4), PyBool(FALSE), PyInt(100)) }

BadBeacons ==
    { Raw("bad_utf8"), Raw("bad_json"), Raw("deep_nest"), Raw("not_dict"),
      Dgram("dict", {"id", "pos", "speed"}, PyStr("a"),
            PyList(<<PyInt(3), PyInt(4)>>), PyInt(10), PyNone),
      Dgram("dict", RequiredKeys, PyInt(7),
            PyList(<<PyInt(3), PyInt(4)>>), PyInt(10), PyInt(100)),
      Dgram("dict", RequiredKeys, PyStr("a"),
            NotList(PyStr("3,4")), PyInt(10), PyInt(100)),
      Dgram("dict", RequiredKeys, PyStr("a"),
            PyList(<<PyInt(3), PyInt(4), PyInt(5)>>), PyInt(10), PyInt(100)),
      Dgram("dict", RequiredKeys, PyStr("a"),
            PyList(<<PyInt(3), PyStr("4")>>), PyInt(10), PyInt(100)),
      Dgram("dict", RequiredKeys, PyStr("b"),
            PyList(<<PyInt(3), PyInt(4)>>), PyStr("fast"), PyInt(100)),
      Dgram("dict", RequiredKeys, PyStr("b"),
            PyList(<<PyInt(3), PyInt(4)>>), PyInt(10), PyFloat(100)) }

Datagrams == ValidBeacons \cup BoolBeacons \cup BadBeacons

----------------------------------------------------------------------------
(* The neighbor table: a Python dict, kept as the sequence of its entries  *)
(* in insertion order.  Assigning to an existing key replaces the value in *)
(* place; assigning to a new key appends.  An entry is                     *)
(* [id, pos, speed, last_ts]; an entry whose dict has no key "pos" has     *)
(* pos = Absent.                                                           *)

Absent == [list |-> FALSE, elems |-> <<>>]

None == <<>>
Some(v) == <<v>>

Keys(tbl) == { tbl[i].id : i \in 1..Len(tbl) }

IndexOf(tbl, id) == CHOOSE i \in 1..Len(tbl) : tbl[i].id = id

Get(tbl, id) == tbl[IndexOf(tbl, id)]

(* An upsert that merges: it keeps the speed of the record it replaces. *)
UpsertMerge(tbl, msg) ==
    LET id == msg.id.s
    IN  IF id \in Keys(tbl)
        THEN [tbl EXCEPT ![IndexOf(tbl, id)] =
                 [id |-> id, pos |-> msg.pos,
                  speed |-> @.speed, last_ts |-> msg.ts]]
        ELSE Append(tbl, [id |-> id, pos |-> msg.pos,
                          speed |-> msg.speed, last_ts |-> msg.ts])

(* An upsert that appends a record even when the id has one. *)
UpsertDup(tbl, msg) ==
    Append(tbl, [id |-> msg.id.s, pos |-> msg.pos,
                 speed |-> msg.speed, last_ts |-> msg.ts])

(* neighbors[msg["id"]] = {"pos": ..., "speed": ..., "last_ts": ...} *)
Upsert(tbl, msg) ==
    LET id == msg.id.s
        rec == [id |-> id, pos |-> msg.pos,
                speed |-> msg.speed, last_ts |-> msg.ts]
    IN  IF id \in Keys(tbl)
        THEN [tbl EXCEPT ![IndexOf(tbl, id)] = rec]
        ELSE Append(tbl, rec)

----------------------------------------------------------------------------
(* Decoding and validation of one datagram, lines 103-133.  The result is  *)
(* the place where the iteration leaves the straight path: the exception   *)
(* that escapes the decode, the continue that drops the datagram, or       *)
(* "store" when every check passed.                                        *)

(* json.loads(data.decode("utf-8")) under except json.JSONDecodeError:     *)
(* bytes.decode raises UnicodeDecodeError, which is a ValueError but not a *)
(* JSONDecodeError, so it is not caught.  Nesting beyond the recursion     *)
(* limit raises RecursionError on interpreters whose limit is below the    *)
(* nesting a 4096-byte datagram can carry and parses otherwise.            *)
DecodeOutcomes(d) ==
    CASE d.body = "bad_utf8" -> {"UnicodeDecodeError"}
      [] d.body = "bad_json" -> {"continue_decode"}
      [] d.body = "deep_nest" -> {"RecursionError", "continue_not_dict"}
      [] OTHER -> {"decoded"}

Exceptions == {"UnicodeDecodeError", "RecursionError"}

(* isinstance(msg["pos"], (list, tuple)) and len(msg["pos"]) == 2 and      *)
(* all(isinstance(x, (int, float)) for x in msg["pos"])                    *)
PosOk(pos) ==
    /\ pos.list
    /\ Len(pos.elems) = 2
    /\ \A i \in 1..Len(pos.elems) : IsInstanceIntFloat(pos.elems[i])

Validate(d) ==
    CASE d.body # "dict" -> "continue_not_dict"
      [] ~(RequiredKeys \subseteq d.keys) -> "continue_missing_key"
      [] ~IsInstanceStr(d.id) -> "continue_id"
      [] ~PosOk(d.pos) -> "continue_pos"
      [] ~IsInstanceIntFloat(d.speed) -> "continue_speed"
      [] ~IsInstanceInt(d.ts) -> "continue_ts"
      [] OTHER -> "store"

(* The outcomes of one datagram. *)
Outcomes(d) ==
    { o \in DecodeOutcomes(d) : o # "decoded" }
      \cup (IF "decoded" \in DecodeOutcomes(d) THEN {Validate(d)} ELSE {})

----------------------------------------------------------------------------
(* The receiver's clock. *)

Min(a, b) == IF a < b THEN a ELSE b

(* The clock after d more milliseconds, given the first_ts in force. *)
Advance(c, d, first) ==
    IF first = None
    THEN Min(c + d, MaxStart)
    ELSE Min(c + d, first[1] + MaxElapsed)

Max(a, b) == IF a > b THEN a ELSE b

(* A receive timeout that shrinks to what is left of the window. *)
RecvTimeoutRemaining(first, now) ==
    IF first = None
    THEN IDLE_TIMEOUT_MS
    ELSE Min(IDLE_TIMEOUT_MS, Max(0, first[1] + COLLECT_WINDOW_MS - now))

(* sock.settimeout(1.5): the timeout of every receive attempt, set once    *)
(* before the loop, whatever first_ts and the clock are.                   *)
RecvTimeoutMs(first, now) == IDLE_TIMEOUT_MS

(* A reading taken from the ts field of the beacon. *)
StampFromBeacon(reading, msg) == msg.ts.n

(* now = now_ms(): the time used for first_ts and for the deadline is the  *)
(* reading of the receiver's clock, whatever the beacon carries.           *)
Stamp(reading, msg) == reading

(* A first_ts that follows the latest stored beacon. *)
FirstTsLatest(first, now) == Some(now)

(* if first_ts is None: first_ts = now *)
FirstTs(first, now) == IF first = None THEN Some(now) ELSE first

(* A deadline test that lets the reading at exactly COLLECT_WINDOW_MS pass. *)
WindowElapsedStrict(first, now) ==
    first # None /\ (now - first[1]) > COLLECT_WINDOW_MS

(* first_ts is not None and (now - first_ts) >= COLLECT_WINDOW_MS *)
WindowElapsed(first, now) ==
    first # None /\ (now - first[1]) >= COLLECT_WINDOW_MS

----------------------------------------------------------------------------
(* euclidean_dist_to_origin and nearest_neighbor.  A distance is kept as   *)
(* [c, sq]: c = "fin" is the float sqrt(sq), c = "inf" is float('inf'),    *)
(* c = "nan" is a NaN.  sqrt is strictly increasing, so finite distances   *)
(* compare as their squares do.                                            *)

Fin(sq) == [c |-> "fin", sq |-> sq]
Inf == [c |-> "inf", sq |-> 0]
NaNDist == [c |-> "nan", sq |-> 0]

(* A comparison that also replaces the nearest on an equal distance. *)
FloatLessEq(a, b) ==
    CASE a.c = "nan" \/ b.c = "nan" -> FALSE
      [] a.c = "inf" -> b.c = "inf"
      [] b.c = "inf" -> TRUE
      [] OTHER -> a.sq <= b.sq

(* dist < min_dist on floats: every comparison with a NaN is False. *)
FloatLess(a, b) ==
    CASE a.c = "nan" \/ b.c = "nan" -> FALSE
      [] a.c = "inf" -> FALSE
      [] b.c = "inf" -> TRUE
      [] OTHER -> a.sq < b.sq

(* What euclidean_dist_to_origin(pos) does: "ValueError" when pos is not   *)
(* two numbers, "OverflowError" when a square leaves the range of a float, *)
(* a distance otherwise.                                                   *)
EuclidRaises(pos) ==
    CASE ~(pos.list /\ Len(pos.elems) = 2) -> "ValueError"
      [] \E i \in 1..Len(pos.elems) : ~IsInstanceIntFloat(pos.elems[i])
            -> "ValueError"
      [] \E i \in 1..Len(pos.elems) : pos.elems[i].s = "huge"
            -> "OverflowError"
      [] OTHER -> "none"

euclidean_dist_to_origin(pos) ==
    LET x == pos.elems[1]
        y == pos.elems[2]
    IN  CASE x.s = "nan" \/ y.s = "nan" -> NaNDist
          [] x.s = "inf" \/ y.s = "inf" -> Inf
          [] OTHER -> Fin(x.n * x.n + y.n * y.n)

(* A loop that gives up at the first entry whose distance computation      *)
(* fails.                                                                  *)
RECURSIVE ScanAbort(_, _, _, _)
ScanAbort(tbl, i, nearest_id, min_dist) ==
    IF i > Len(tbl)
    THEN [raised |-> "none", nearest_id |-> nearest_id, min_dist |-> min_dist]
    ELSE LET pos == tbl[i].pos
             r == IF pos = Absent THEN "KeyError" ELSE EuclidRaises(pos)
         IN  CASE r = "OverflowError" ->
                    [raised |-> r, nearest_id |-> nearest_id,
                     min_dist |-> min_dist]
               [] r \in {"ValueError", "KeyError"} ->
                    [raised |-> "none", nearest_id |-> nearest_id,
                     min_dist |-> min_dist]
               [] OTHER ->
                    LET dist == euclidean_dist_to_origin(pos)
                    IN  IF FloatLess(dist, min_dist)
                        THEN ScanAbort(tbl, i + 1, Some(tbl[i].id), dist)
                        ELSE ScanAbort(tbl, i + 1, nearest_id, min_dist)

(* A loop that takes every evaluable entry without comparing distances. *)
RECURSIVE ScanLast(_, _, _, _)
ScanLast(tbl, i, nearest_id, min_dist) ==
    IF i > Len(tbl)
    THEN [raised |-> "none", nearest_id |-> nearest_id, min_dist |-> min_dist]
    ELSE LET pos == tbl[i].pos
             r == IF pos = Absent THEN "KeyError" ELSE EuclidRaises(pos)
         IN  CASE r = "OverflowError" ->
                    [raised |-> r, nearest_id |-> nearest_id,
                     min_dist |-> min_dist]
               [] r \in {"ValueError", "KeyError"} ->
                    ScanLast(tbl, i + 1, nearest_id, min_dist)
               [] OTHER ->
                    ScanLast(tbl, i + 1, Some(tbl[i].id),
                             euclidean_dist_to_origin(pos))

(* The for loop of nearest_neighbor from entry i on, with the running      *)
(* nearest_id (None or Some(id)) and min_dist.  The result is              *)
(* [raised, nearest_id, min_dist].  data["pos"] raises KeyError when the   *)
(* entry has no pos; KeyError and ValueError are caught and the entry is   *)
(* skipped, OverflowError is not caught.                                   *)
RECURSIVE Scan(_, _, _, _)
Scan(tbl, i, nearest_id, min_dist) ==
    IF i > Len(tbl)
    THEN [raised |-> "none", nearest_id |-> nearest_id, min_dist |-> min_dist]
    ELSE LET pos == tbl[i].pos
             r == IF pos = Absent THEN "KeyError" ELSE EuclidRaises(pos)
         IN  CASE r = "OverflowError" ->
                    [raised |-> r, nearest_id |-> nearest_id,
                     min_dist |-> min_dist]
               [] r \in {"ValueError", "KeyError"} ->
                    Scan(tbl, i + 1, nearest_id, min_dist)
               [] OTHER ->
                    LET dist == euclidean_dist_to_origin(pos)
                    IN  IF FloatLess(dist, min_dist)
                        THEN Scan(tbl, i + 1, Some(tbl[i].id), dist)
                        ELSE Scan(tbl, i + 1, nearest_id, min_dist)

(* nearest_neighbor(neighbors): [raised, result], result None or           *)
(* Some([id, dist]).                                                       *)
nearest_neighbor(tbl) ==
    IF Len(tbl) = 0
    THEN [raised |-> "none", result |-> None]
    ELSE LET r == Scan(tbl, 1, None, Inf)
         IN  IF r.raised # "none"
             THEN [raised |-> r.raised, result |-> None]
             ELSE IF r.nearest_id = None
                  THEN [raised |-> "none", result |-> None]
                  ELSE [raised |-> "none",
                        result |-> Some([id |-> r.nearest_id[1],
                                         dist |-> r.min_dist])]

----------------------------------------------------------------------------
(* State.                                                                  *)
(*   pc        where main() is: "bind", "loop", "finally", "select",       *)
(*             "emit", "done" (returned 0) or "crashed" (an exception left *)
(*             main)                                                       *)
(*   sock      "unbound", "bound" or "closed"; closes counts sock.close()  *)
(*   neighbors, first_ts   the locals of main()                            *)
(*   clock     the receiver's clock, what now_ms() returns                 *)
(*   exc       the exception in flight, "none" if there is none            *)
(*   last      what the last receive attempt came to                       *)
(*   nn        the value of nearest_neighbor(neighbors)                    *)
(*   out       the lines printed; status the exit status (-1: running)     *)
(*   accepted  for each id, the last datagram that passed validation       *)
(*             (None before the first)                                     *)
(*   replaced  the record that the last store overwrote (None when it      *)
(*             inserted a new key)                                         *)
(*   lateIds   ids whose record was stored from a datagram that arrived    *)
(*             COLLECT_WINDOW_MS or more after first_ts                    *)
(*   firstSeen the ids in the order in which each was first accepted       *)
(*   exitBy    how the loop was left: "none", "idle", "deadline", "fault"  *)
(*   calls     the results of the calls of nearest_neighbor made on its    *)
(*             own, outside a run of main()                                *)
(*   port      the port the socket is bound to (0: none)                   *)
(*   dropped   the number of datagrams sent, while the loop runs, to a     *)
(*             port the socket is not bound to                             *)
(*   pc2, neighbors2, first_ts2, clock2                                    *)
(*             pc, neighbors, first_ts and clock of a second run of        *)
(*             main(), for the comparison of two runs                      *)

Init ==
    /\ pc = "bind"
    /\ sock = "unbound"
    /\ closes = 0
    /\ neighbors = <<>>
    /\ first_ts = None
    /\ clock = 0
    /\ exc = "none"
    /\ last = "none"
    /\ nn = None
    /\ out = <<>>
    /\ status = -1
    /\ accepted = [i \in Ids |-> None]
    /\ replaced = None
    /\ lateIds = {}
    /\ firstSeen = <<>>
    /\ exitBy = "none"
    /\ calls = <<>>
    /\ port = 0
    /\ dropped = 0
    /\ pc2 = "bind"
    /\ neighbors2 = <<>>
    /\ first_ts2 = None
    /\ clock2 = 0

(* A bind to the port of the ticks. *)
BindTick ==
    /\ pc = "bind"
    /\ \/ /\ sock' = "bound"
          /\ port' = PORT_TICK
          /\ pc' = "loop"
          /\ UNCHANGED <<exc, status>>
       \/ /\ sock' = "unbound"
          /\ pc' = "crashed"
          /\ exc' = "OSError"
          /\ status' = 1
          /\ UNCHANGED port
    /\ UNCHANGED <<closes, neighbors, first_ts, clock, last, nn, out,
                   accepted, replaced, lateIds, firstSeen, exitBy, dropped>>
    /\ UNCHANGED <<aside, other>>

(* sock.bind((HOST, PORT_BEACON)); sock.settimeout(1.5).  bind is outside  *)
(* the try: when it raises, main() is left without the loop having run.    *)
Bind ==
    /\ pc = "bind"
    /\ \/ /\ sock' = "bound"
          /\ port' = PORT_BEACON
          /\ pc' = "loop"
          /\ UNCHANGED <<exc, status>>
       \/ /\ sock' = "unbound"
          /\ pc' = "crashed"
          /\ exc' = "OSError"
          /\ status' = 1
          /\ UNCHANGED port
    /\ UNCHANGED <<closes, neighbors, first_ts, clock, last, nn, out,
                   accepted, replaced, lateIds, firstSeen, exitBy, dropped>>
    /\ UNCHANGED <<aside, other>>

(* recvfrom raises socket.timeout when the timeout of the socket has run   *)
(* out with no datagram: break.                                            *)
RecvTimeout ==
    /\ pc = "loop"
    /\ clock' = Advance(clock, RecvTimeoutMs(first_ts, clock), first_ts)
    /\ last' = "timeout"
    /\ exitBy' = "idle"
    /\ pc' = "finally"
    /\ UNCHANGED <<sock, closes, neighbors, first_ts, exc, nn, out, status,
                   accepted, replaced, lateIds, firstSeen,
                   port, dropped>>
    /\ UNCHANGED aside

(* One iteration of the loop on datagram d, which arrives w ms into the    *)
(* receive attempt, before its timeout; now_ms() is read p ms after        *)
(* recvfrom returned.                                                      *)
RecvDatagram(d, w, p) ==
    /\ pc = "loop"
    /\ w < RecvTimeoutMs(first_ts, clock)
    /\ \E o \in Outcomes(d) :
        LET arrival == Advance(clock, w, first_ts)
            now == Stamp(Advance(arrival, p, first_ts), d)
            first == FirstTs(first_ts, now)
        IN  CASE o \in Exceptions ->
                  /\ exc' = o
                  /\ last' = o
                  /\ exitBy' = "fault"
                  /\ pc' = "finally"
                  /\ clock' = arrival
                  /\ UNCHANGED <<neighbors, first_ts, accepted, replaced,
                                 lateIds, firstSeen>>
              [] o = "store" ->
                  /\ neighbors' = Upsert(neighbors, d)
                  /\ accepted' = [accepted EXCEPT ![d.id.s] = Some(d)]
                  /\ replaced' = IF d.id.s \in Keys(neighbors)
                                 THEN Some(Get(neighbors, d.id.s))
                                 ELSE None
                  /\ lateIds' =
                       IF first_ts # None
                          /\ arrival - first_ts[1] >= COLLECT_WINDOW_MS
                       THEN lateIds \cup {d.id.s}
                       ELSE lateIds \ {d.id.s}
                  /\ firstSeen' =
                       IF \E k \in 1..Len(firstSeen) : firstSeen[k] = d.id.s
                       THEN firstSeen
                       ELSE Append(firstSeen, d.id.s)
                  /\ clock' = now
                  /\ first_ts' = first
                  /\ last' = "store"
                  /\ IF WindowElapsed(first, now)
                     THEN pc' = "finally" /\ exitBy' = "deadline"
                     ELSE pc' = "loop" /\ exitBy' = exitBy
                  /\ UNCHANGED exc
              [] OTHER ->
                  /\ last' = o
                  /\ clock' = arrival
                  /\ UNCHANGED <<pc, neighbors, first_ts, accepted, replaced,
                                 lateIds, firstSeen, exc, exitBy>>
    /\ UNCHANGED <<sock, closes, nn, out, status, port>>
    /\ UNCHANGED aside

(* Datagram d is sent to port dst.  It reaches the socket of main() only   *)
(* when that is the port the socket is bound to; recvfrom returns nothing  *)
(* of a datagram sent elsewhere.                                           *)
Send(d, dst, w, p) ==
    \/ /\ dst = port
       /\ RecvDatagram(d, w, p)
       /\ UNCHANGED <<dropped, other>>
    \/ /\ dst # port
       /\ pc = "loop"
       /\ dropped < MaxDropped
       /\ dropped' = dropped + 1
       /\ UNCHANGED <<pc, sock, closes, neighbors, first_ts, clock, exc,
                      last, nn, out, status, accepted, replaced, lateIds,
                      firstSeen, exitBy, port>>
       /\ UNCHANGED <<aside, other>>

Ports == {PORT_BEACON, PORT_TICK}

Recv ==
    \E d \in Datagrams, dst \in Ports, w \in Waits, p \in ProcDelays :
        Send(d, dst, w, p)

(* A close that follows the loop without a finally: an exception in flight *)
(* skips it.                                                               *)
CloseNoFinally ==
    /\ pc = "finally"
    /\ IF exc = "none"
       THEN /\ sock' = "closed"
            /\ closes' = closes + 1
            /\ pc' = "select"
            /\ status' = status
       ELSE /\ pc' = "crashed"
            /\ status' = 1
            /\ UNCHANGED <<sock, closes>>
    /\ UNCHANGED <<neighbors, first_ts, clock, exc, last, nn, out,
                   accepted, replaced, lateIds, firstSeen, exitBy,
                   port, dropped>>
    /\ UNCHANGED <<aside, other>>

(* finally: sock.close().  An exception in flight then leaves main().      *)
Close ==
    /\ pc = "finally"
    /\ sock' = "closed"
    /\ closes' = closes + 1
    /\ IF exc = "none"
       THEN pc' = "select" /\ status' = status
       ELSE pc' = "crashed" /\ status' = 1
    /\ UNCHANGED <<neighbors, first_ts, clock, exc, last, nn, out,
                   accepted, replaced, lateIds, firstSeen, exitBy,
                   port, dropped>>
    /\ UNCHANGED <<aside, other>>

(* nn = nearest_neighbor(neighbors) *)
Select ==
    /\ pc = "select"
    /\ LET r == nearest_neighbor(neighbors)
       IN  IF r.raised = "none"
           THEN /\ nn' = r.result
                /\ pc' = "emit"
                /\ UNCHANGED <<exc, status>>
           ELSE /\ exc' = r.raised
                /\ pc' = "crashed"
                /\ status' = 1
                /\ UNCHANGED nn
    /\ UNCHANGED <<sock, closes, neighbors, first_ts, clock, last, out,
                   accepted, replaced, lateIds, firstSeen, exitBy,
                   port, dropped>>
    /\ UNCHANGED <<aside, other>>

(* print(json.dumps(summary), flush=True); return 0 *)
Emit ==
    /\ pc = "emit"
    /\ out' = Append(out, [topic |-> "/v2x/neighbor_summary",
                           count |-> Len(neighbors),
                           nearest |-> nn,
                           ts |-> clock])
    /\ status' = 0
    /\ pc' = "done"
    /\ UNCHANGED <<sock, closes, neighbors, first_ts, clock, exc, last, nn,
                   accepted, replaced, lateIds, firstSeen, exitBy,
                   port, dropped>>
    /\ UNCHANGED <<aside, other>>

(* The receive attempt of a single run times out. *)
Idle == RecvTimeout /\ UNCHANGED other

Next == Bind \/ Idle \/ Recv \/ Close \/ Select \/ Emit

Spec == Init /\ [][Next]_vars

(* The program keeps running: a receive attempt always returns, with a     *)
(* datagram or with the timeout, and the straight-line code after the loop *)
(* runs to its end.                                                        *)
FairSpec == Spec /\ WF_vars(Next)

----------------------------------------------------------------------------
(* nearest_neighbor on its own.  The table it is given is any dict of at   *)
(* most MaxTbl entries: the positions are those that main() stores and     *)
(* those the function defends against (no pos, a pos that is not a list,   *)
(* wrong length, an element that is not a number).                         *)

SelIds == {"a", "b", "c"}

SelPositions ==
    { PyList(<<PyInt(3), PyInt(4)>>),
      PyList(<<PyInt(0), PyFloat(5)>>),
      PyList(<<PyInt(1), PyInt(1)>>),
      PyList(<<PyNaN, PyInt(0)>>),
      PyList(<<PyHuge, PyInt(0)>>),
      Absent,
      NotList(PyStr("3,4")),
      PyList(<<PyInt(0)>>),
      PyList(<<PyInt(0), PyStr("0")>>) }

SelEntry(id, pos) ==
    [id |-> id, pos |-> pos, speed |-> PyInt(10), last_ts |-> PyInt(100)]

SelTables ==
    UNION { { t \in [1..n -> { SelEntry(i, q) : i \in SelIds,
                                                 q \in SelPositions }] :
                \A j, k \in 1..n : t[j].id = t[k].id => j = k }
            : n \in 0..MaxTbl }

SelInit ==
    /\ pc = "call"
    /\ sock = "unbound"
    /\ closes = 0
    /\ neighbors \in SelTables
    /\ first_ts = None
    /\ clock = 0
    /\ exc = "none"
    /\ last = "none"
    /\ nn = None
    /\ out = <<>>
    /\ status = -1
    /\ accepted = [i \in Ids |-> None]
    /\ replaced = None
    /\ lateIds = {}
    /\ firstSeen = <<>>
    /\ exitBy = "none"
    /\ calls = <<>>
    /\ port = 0
    /\ dropped = 0
    /\ pc2 = "bind"
    /\ neighbors2 = <<>>
    /\ first_ts2 = None
    /\ clock2 = 0

(* A selector that removes the entry it returns from the table. *)
SelCallPop ==
    /\ pc = "call"
    /\ Len(calls) < MaxCalls
    /\ LET r == nearest_neighbor(neighbors)
       IN  /\ calls' = Append(calls, r)
           /\ neighbors' =
                 IF r.result = None
                 THEN neighbors
                 ELSE SelectSeq(neighbors,
                                LAMBDA e : e.id # r.result[1].id)
    /\ UNCHANGED <<pc, sock, closes, first_ts, clock, exc, last, nn,
                   out, status, accepted, replaced, lateIds, firstSeen,
                   exitBy, port, dropped>>
    /\ UNCHANGED other

(* nearest_neighbor(neighbors): the function reads the table it is given   *)
(* and assigns to nothing but its own locals.                              *)
SelCall ==
    /\ pc = "call"
    /\ Len(calls) < MaxCalls
    /\ calls' = Append(calls, nearest_neighbor(neighbors))
    /\ UNCHANGED <<pc, sock, closes, neighbors, first_ts, clock, exc, last, nn,
                   out, status, accepted, replaced, lateIds, firstSeen,
                   exitBy, port, dropped>>
    /\ UNCHANGED other

SelNext == SelCall

SelSpec == SelInit /\ [][SelNext]_vars

----------------------------------------------------------------------------
(* Two runs of the receive loop side by side.  Both have bound the socket  *)
(* and are in the loop; each receive attempt returns at the same time in   *)
(* both, with the same datagram but for the value of its ts field.  The    *)
(* second run is the loop of main() again, on pc2, neighbors2, first_ts2   *)
(* and clock2.                                                             *)

TsValues == {100, 5000}

(* The datagrams that differ from d in the value of an integer ts only. *)
Variants(d) ==
    IF d.body = "dict" /\ d.ts.t = "int"
    THEN { [d EXCEPT !.ts = PyInt(t)] : t \in TsValues }
    ELSE {d}

(* The datagrams whose outcome does not depend on the interpreter. *)
PairDatagrams == { d \in Datagrams : Cardinality(Outcomes(d)) = 1 }

RecvTimeout2 ==
    /\ pc2 = "loop"
    /\ clock2' = Advance(clock2, RecvTimeoutMs(first_ts2, clock2), first_ts2)
    /\ pc2' = "finally"
    /\ UNCHANGED <<neighbors2, first_ts2>>

RecvDatagram2(d, w, p) ==
    /\ pc2 = "loop"
    /\ w < RecvTimeoutMs(first_ts2, clock2)
    /\ \E o \in Outcomes(d) :
        LET arrival == Advance(clock2, w, first_ts2)
            now == Stamp(Advance(arrival, p, first_ts2), d)
            first == FirstTs(first_ts2, now)
        IN  CASE o \in Exceptions ->
                  /\ pc2' = "finally"
                  /\ clock2' = arrival
                  /\ UNCHANGED <<neighbors2, first_ts2>>
              [] o = "store" ->
                  /\ neighbors2' = Upsert(neighbors2, d)
                  /\ clock2' = now
                  /\ first_ts2' = first
                  /\ pc2' = IF WindowElapsed(first, now)
                            THEN "finally"
                            ELSE "loop"
              [] OTHER ->
                  /\ clock2' = arrival
                  /\ UNCHANGED <<pc2, neighbors2, first_ts2>>

PairInit ==
    /\ pc = "loop"
    /\ sock = "bound"
    /\ closes = 0
    /\ neighbors = <<>>
    /\ first_ts = None
    /\ clock = 0
    /\ exc = "none"
    /\ last = "none"
    /\ nn = None
    /\ out = <<>>
    /\ status = -1
    /\ accepted = [i \in Ids |-> None]
    /\ replaced = None
    /\ lateIds = {}
    /\ firstSeen = <<>>
    /\ exitBy = "none"
    /\ calls = <<>>
    /\ port = PORT_BEACON
    /\ dropped = 0
    /\ pc2 = "loop"
    /\ neighbors2 = <<>>
    /\ first_ts2 = None
    /\ clock2 = 0

PairRecv(d, d2, w, p) ==
    /\ RecvDatagram(d, w, p)
    /\ RecvDatagram2(d2, w, p)
    /\ UNCHANGED dropped

PairTimeout == RecvTimeout /\ RecvTimeout2

PairNext ==
    \/ \E d \in PairDatagrams, w \in Waits, p \in ProcDelays :
          \E d2 \in Variants(d) : PairRecv(d, d2, w, p)
    \/ PairTimeout

PairSpec == PairInit /\ [][PairNext]_vars

----------------------------------------------------------------------------
(* What the specification calls a number and an integer: a boolean is      *)
(* neither.                                                                *)

IsNumber(x) == x.t \in {"int", "float"}
IsInteger(x) == x.t = "int"

(* A malformed datagram: not parseable JSON, not a mapping, a required key *)
(* missing, id not a string, pos not exactly two numbers, speed not a      *)
(* number, ts not an integer.                                              *)
Malformed(d) ==
    \/ d.body # "dict"
    \/ ~(RequiredKeys \subseteq d.keys)
    \/ d.id.t # "str"
    \/ ~(d.pos.list /\ Len(d.pos.elems) = 2
          /\ \A i \in 1..Len(d.pos.elems) : IsNumber(d.pos.elems[i]))
    \/ ~IsNumber(d.speed)
    \/ ~IsInteger(d.ts)

(* A datagram whose body cannot be decoded: bytes that are not UTF-8, or   *)
(* text that is not JSON.                                                  *)
Undecodable(d) == d.body \in {"bad_utf8", "bad_json"}

(* The record main() stores for datagram d. *)
RecordOf(d) ==
    [id |-> d.id.s, pos |-> d.pos, speed |-> d.speed, last_ts |-> d.ts]

AcceptedIds == { i \in Ids : accepted[i] # None }

(* C1: processing a malformed datagram leaves the neighbor table and       *)
(* first_ts as they were, and the loop goes on to the next receive attempt *)
(* without ending and without a fault.                                     *)
C1_MalformedDropped ==
    [][\A d \in Datagrams, w \in Waits, p \in ProcDelays :
         (Malformed(d) /\ RecvDatagram(d, w, p)) =>
            /\ neighbors' = neighbors
            /\ first_ts' = first_ts
            /\ pc' = "loop"
            /\ exc' = "none"]_vars

(* C2: a datagram whose body is not valid UTF-8 or not valid JSON is       *)
(* discarded and the loop continues; it never ends the process and never   *)
(* keeps the summary from being produced.                                  *)
C2_UndecodableDropped ==
    [][\A d \in Datagrams, w \in Waits, p \in ProcDelays :
         (Undecodable(d) /\ RecvDatagram(d, w, p)) =>
            /\ pc' = "loop"
            /\ exc' = "none"
            /\ status' = status
            /\ neighbors' = neighbors]_vars

(* C3: every record of the table is exactly {pos, speed, last_ts: ts} of   *)
(* the most recent accepted beacon of its id, and an id has one record.    *)
C3_LastWriteWins ==
    /\ \A i \in 1..Len(neighbors) :
          /\ accepted[neighbors[i].id] # None
          /\ neighbors[i] = RecordOf(accepted[neighbors[i].id][1])
    /\ \A i, j \in 1..Len(neighbors) :
          neighbors[i].id = neighbors[j].id => i = j

(* An id's record was overwritten by a beacon that differs from the        *)
(* earlier one in pos, speed and ts, and the table holds the later one.    *)
C3_Witness ==
    /\ replaced # None
    /\ replaced[1].id \in Keys(neighbors)
    /\ LET cur == Get(neighbors, replaced[1].id)
       IN  /\ cur.pos # replaced[1].pos
           /\ cur.speed # replaced[1].speed
           /\ cur.last_ts # replaced[1].last_ts
    /\ Len(neighbors) = 1

(* C4: the table size, and the count of the summary, is the number of      *)
(* distinct ids accepted so far; records are never deleted, and a datagram *)
(* that is discarded adds no id.                                           *)
C4_CountIsDistinctIds ==
    /\ [](/\ Len(neighbors) = Cardinality(AcceptedIds)
          /\ \A k \in 1..Len(out) : out[k].count = Cardinality(AcceptedIds))
    /\ [][/\ Keys(neighbors) \subseteq Keys(neighbors')
          /\ last' # "store" => Keys(neighbors') = Keys(neighbors)]_vars

(* A summary with count 2 after three stores: an id was stored twice.      *)
C4_Witness ==
    /\ Len(out) = 1
    /\ out[1].count = 2
    /\ replaced # None

(* C5: first_ts is unset as long as nothing is stored, is set by the first *)
(* store to the receiver's clock reading, and never changes afterwards; a  *)
(* discarded datagram never sets it.                                       *)
C5_FirstTsAnchored ==
    /\ []((first_ts = None) <=> (neighbors = <<>>))
    /\ [][/\ first_ts # None => first_ts' = first_ts
          /\ (first_ts = None /\ first_ts' # None) =>
                (last' = "store" /\ first_ts' = Some(clock'))]_vars

(* Datagrams were discarded while time passed, then a first beacon was     *)
(* stored, then a later beacon was stored at a later clock reading.        *)
C5_Witness ==
    /\ first_ts # None
    /\ first_ts[1] > 0
    /\ clock > first_ts[1]
    /\ replaced # None
    /\ last = "store"

C7_LoopTerminates == <>(pc \notin {"bind", "loop"})

(* C8: after a beacon is stored the loop stops if and only if              *)
(* now - first_ts >= COLLECT_WINDOW_MS; once it has stopped nothing more   *)
(* is received or stored.                                                  *)
C8_StopIffWindowElapsed ==
    /\ [][(pc = "loop" /\ last' = "store") =>
            ((pc' # "loop") <=> (clock' - first_ts'[1] >= COLLECT_WINDOW_MS))]_vars
    /\ [][pc \notin {"bind", "loop"} =>
            (/\ pc' # "loop"
             /\ UNCHANGED <<neighbors, first_ts, accepted, last>>)]_vars

(* The first beacon was stored and the loop went on; a second id was       *)
(* stored exactly COLLECT_WINDOW_MS after first_ts and the loop stopped.   *)
C8_Witness ==
    /\ exitBy = "deadline"
    /\ last = "store"
    /\ Len(neighbors) = 2
    /\ clock - first_ts[1] = COLLECT_WINDOW_MS

(* C9: once bound, the socket is closed exactly once on every way out of   *)
(* the loop, before the selector runs and before the summary is printed,   *)
(* and it is open whenever the loop receives.                              *)
C9_ReleasedOnce ==
    sock # "unbound" =>
        /\ closes = (IF pc \in {"loop", "finally"} THEN 0 ELSE 1)
        /\ sock = (IF closes = 0 THEN "bound" ELSE "closed")
        /\ (nn # None \/ out # <<>>) => closes = 1

(* An exception left the loop and the socket was closed on the way out.    *)
C9_Witness ==
    /\ pc = "crashed"
    /\ exitBy = "fault"
    /\ closes = 1
    /\ sock = "closed"

(* C10: every run whose socket was bound prints exactly one summary and    *)
(* returns status 0; nothing is printed while the loop runs.               *)
C10_OneSummaryStatusZero ==
    /\ pc \in {"loop", "finally", "select"} => out = <<>>
    /\ (sock # "unbound" /\ pc \in {"done", "crashed"}) =>
          (Len(out) = 1 /\ status = 0)

----------------------------------------------------------------------------
(* The distance computation fails for a stored position when               *)
(* euclidean_dist_to_origin raises its invalid-position error for it.      *)
Unevaluable(pos) == pos = Absent \/ EuclidRaises(pos) = "ValueError"

(* C11: in the summary, nearest is null if and only if count is 0 or every *)
(* record's position is unevaluable.                                       *)
C11_NullIffEmptyOrUnevaluable ==
    \A k \in 1..Len(out) :
        (out[k].nearest = None) <=>
            \/ out[k].count = 0
            \/ \A i \in 1..Len(neighbors) : Unevaluable(neighbors[i].pos)

(* The square of the distance of a stored position whose coordinates are   *)
(* finite numbers.                                                         *)
FinitePos(pos) ==
    ~Unevaluable(pos) /\ \A j \in 1..Len(pos.elems) : pos.elems[j].s = ""
SqDist(pos) == pos.elems[1].n * pos.elems[1].n + pos.elems[2].n * pos.elems[2].n

(* C12: a nearest that is not null names a key of the table, its dist is   *)
(* the Euclidean distance of that id's stored position, and no evaluable   *)
(* record of the table is strictly nearer.                                 *)
C12_NearestIsMinimum ==
    \A k \in 1..Len(out) :
        out[k].nearest # None =>
            LET n == out[k].nearest[1]
            IN  /\ n.id \in Keys(neighbors)
                /\ FinitePos(Get(neighbors, n.id).pos)
                /\ n.dist = Fin(SqDist(Get(neighbors, n.id).pos))
                /\ \A i \in 1..Len(neighbors) :
                      FinitePos(neighbors[i].pos) =>
                          SqDist(neighbors[i].pos) >= n.dist.sq

(* A summary over two records, one of which replaced a record of the same  *)
(* id that was nearer than the nearest now reported.                       *)
C12_Witness ==
    /\ Len(out) = 1
    /\ out[1].nearest # None
    /\ Len(neighbors) = 2
    /\ replaced # None
    /\ FinitePos(replaced[1].pos)
    /\ SqDist(replaced[1].pos) < out[1].nearest[1].dist.sq

(* The place of an id in the order of first acceptance. *)
Rank(id) == CHOOSE k \in 1..Len(firstSeen) : firstSeen[k] = id

(* C13: the table keeps its ids in the order in which each was first       *)
(* accepted, an overwrite included, and among the records tied at the      *)
(* minimum distance the nearest reported is the one first accepted.        *)
C13_TieGoesToFirstAccepted ==
    /\ Len(neighbors) = Len(firstSeen)
    /\ \A i \in 1..Len(neighbors) : neighbors[i].id = firstSeen[i]
    /\ \A k \in 1..Len(out) :
          out[k].nearest # None =>
              LET n == out[k].nearest[1]
              IN  \A i \in 1..Len(neighbors) :
                     (/\ FinitePos(neighbors[i].pos)
                      /\ SqDist(neighbors[i].pos) = n.dist.sq)
                        => Rank(n.id) <= Rank(neighbors[i].id)

(* Two records are tied at the minimum; the one reported was accepted      *)
(* first and was overwritten after the other had been inserted.            *)
C13_Witness ==
    /\ Len(out) = 1
    /\ out[1].nearest # None
    /\ Len(neighbors) = 2
    /\ FinitePos(neighbors[1].pos) /\ FinitePos(neighbors[2].pos)
    /\ SqDist(neighbors[1].pos) = SqDist(neighbors[2].pos)
    /\ out[1].nearest[1].id = firstSeen[1]
    /\ replaced # None
    /\ replaced[1].id = firstSeen[1]

(* The entries of a table that the selector does not skip. *)
Evaluable(e) == ~Unevaluable(e.pos)
Remaining(tbl) == SelectSeq(tbl, Evaluable)

(* C14: an entry whose distance computation fails is skipped and the       *)
(* others are still evaluated: the result is that of the table without     *)
(* the failing entries, it is no neighbor when every entry fails, it is    *)
(* the minimum when the remaining entries are finite, and no failing       *)
(* entry makes the selector raise.                                         *)
C14_FailingEntriesSkipped ==
    \A k \in 1..Len(calls) :
        LET rest == Remaining(neighbors)
            r == calls[k]
        IN  /\ r = nearest_neighbor(rest)
            /\ rest = <<>> => (r.raised = "none" /\ r.result = None)
            /\ (rest # <<>> /\ \A i \in 1..Len(rest) : FinitePos(rest[i].pos)) =>
                  /\ r.raised = "none"
                  /\ r.result # None
                  /\ \E i \in 1..Len(rest) :
                        /\ rest[i].id = r.result[1].id
                        /\ r.result[1].dist = Fin(SqDist(rest[i].pos))
                  /\ \A i \in 1..Len(rest) :
                        SqDist(rest[i].pos) >= r.result[1].dist.sq

(* The selector was called on a table whose first entry fails and whose    *)
(* second entry is evaluable, and returned the second.                     *)
C14_Witness ==
    /\ pc = "call"
    /\ Len(calls) >= 1
    /\ Len(neighbors) = 2
    /\ Unevaluable(neighbors[1].pos)
    /\ FinitePos(neighbors[2].pos)
    /\ calls[1].result # None
    /\ calls[1].result[1].id = neighbors[2].id

C15_IdleTimeoutFixed ==
    /\ [][(pc = "loop" /\ last' = "timeout") =>
            /\ clock' = Advance(clock, IDLE_TIMEOUT_MS, first_ts)
            /\ pc' = "finally"
            /\ exitBy' = "idle"
            /\ UNCHANGED <<neighbors, first_ts>>]_vars
    /\ [][pc \notin {"bind", "loop"} => pc' # "loop"]_vars
    /\ [](pc = "loop" =>
            \A d \in Datagrams, w \in Waits :
                w < IDLE_TIMEOUT_MS => ENABLED RecvDatagram(d, w, 0))

(* The loop ended by the idle timeout, IDLE_TIMEOUT_MS after the one       *)
(* beacon that was stored: the timeout ran past the end of the window.     *)
C15_Witness ==
    /\ exitBy = "idle"
    /\ last = "timeout"
    /\ Len(neighbors) = 1
    /\ first_ts # None
    /\ clock - first_ts[1] = IDLE_TIMEOUT_MS

(* C17: the socket is bound to the beacon port only, and a datagram sent   *)
(* to the tick port, well-formed or not, changes neither the table nor     *)
(* first_ts, is not seen by a receive attempt and does not touch the       *)
(* clock of the idle timeout.                                              *)
C17_TickPortNeverRead ==
    /\ [](port \in {0, PORT_BEACON})
    /\ [][\A d \in Datagrams, w \in Waits, p \in ProcDelays :
            Send(d, PORT_TICK, w, p) =>
                UNCHANGED <<pc, neighbors, first_ts, clock, last, exitBy,
                            accepted, exc>>]_vars

(* A datagram was sent to the tick port while the loop ran, and the run    *)
(* ended by the idle timeout with an empty table and a count of 0.         *)
C17_Witness ==
    /\ dropped >= 1
    /\ exitBy = "idle"
    /\ neighbors = <<>>
    /\ first_ts = None
    /\ Len(out) = 1
    /\ out[1].count = 0

(* C18: once a receive attempt has returned with the clock at              *)
(* COLLECT_WINDOW_MS or more after first_ts, the loop has ended: it is     *)
(* never waiting for another datagram past the deadline.                   *)
C18_LoopEndsPastDeadline ==
    (pc = "loop" /\ first_ts # None) =>
        clock - first_ts[1] < COLLECT_WINDOW_MS

(* A beacon with a boolean coordinate, speed or timestamp. *)
HasBoolean(d) ==
    /\ d.body = "dict"
    /\ RequiredKeys \subseteq d.keys
    /\ \/ d.ts.t = "bool"
       \/ d.speed.t = "bool"
       \/ \E i \in 1..Len(d.pos.elems) : d.pos.elems[i].t = "bool"

(* C19: a boolean is not a number: the receiver discards a beacon with a   *)
(* boolean pos element, speed or ts and leaves the table unchanged, and    *)
(* the distance computation rejects a position with a boolean coordinate,  *)
(* so such a position is never the nearest of a summary.                   *)
C19_BooleansRejected ==
    /\ [][\A d \in Datagrams, w \in Waits, p \in ProcDelays :
            (HasBoolean(d) /\ RecvDatagram(d, w, p)) =>
                (neighbors' = neighbors /\ first_ts' = first_ts)]_vars
    /\ [](\A k \in 1..Len(out) :
            out[k].nearest # None =>
                \A i \in 1..Len(neighbors) :
                    neighbors[i].id = out[k].nearest[1].id =>
                        \A j \in 1..Len(neighbors[i].pos.elems) :
                            neighbors[i].pos.elems[j].t # "bool")

(* A table without the values of last_ts. *)
EraseTs(tbl) == [i \in 1..Len(tbl) |-> [tbl[i] EXCEPT !.last_ts = PyNone]]

(* C20: two runs that receive at the same times datagrams that differ in   *)
(* the values of ts only have the same first_ts, are at the same place of  *)
(* the loop after every receive attempt (so they stop at the same one),    *)
(* and have tables that differ in last_ts at most.                         *)
C20_WindowIgnoresBeaconTs ==
    /\ pc2 = pc
    /\ first_ts2 = first_ts
    /\ clock2 = clock
    /\ EraseTs(neighbors2) = EraseTs(neighbors)

(* Both runs stopped at the deadline with two records each, and every      *)
(* record of one differs from the other run's in last_ts.                  *)
C20_Witness ==
    /\ pc = "finally" /\ pc2 = "finally"
    /\ exitBy = "deadline"
    /\ Len(neighbors) = 2
    /\ Len(neighbors2) = 2
    /\ \A i \in 1..2 : neighbors[i].last_ts # neighbors2[i].last_ts

====
